---- MODULE Spec2Model ----
(***************************************************************************)
(* Model of results/plot-cylinder-histories.py: the resolution selectors   *)
(* (get_max_h, get_max_p, get_max_t), the data loader, process_data and    *)
(* the (group x motion) main loop with the per-group accumulator.          *)
(*                                                                         *)
(* Python strings are sequences of character codes, so that the substring  *)
(* test `a in b` and the string comparison `a > b` are computed, not       *)
(* assumed.  A time sample is NaN or base + off * 1e-8 with an integer     *)
(* base and a small integer offset, so that np.isclose is computed with    *)
(* numpy's default tolerances.                                             *)
(***************************************************************************)
EXTENDS Integers, Sequences, FiniteSets, TLC

VARIABLES fs, gi, mi, pc, groups, max_h, max_p, max_t, data, pd,
          plots, stdout, phases, wrote, stale, outcome, arg, ret

vars == <<fs, gi, mi, pc, groups, max_h, max_p, max_t, data, pd,
          plots, stdout, phases, wrote, stale, outcome, arg, ret>>

(***************************************************************************)
(* Python values                                                           *)
(***************************************************************************)
\* Python's None, and the False that load_participant_data returns
None == [py |-> "None"]
False == [py |-> "False"]

\* max_h = None, max_p = None: the value of a scan that found no token (a
\* string that is no token)
NoToken == <<>>

\* {}: the dict without keys
EmptyDict == <<>>

\* a in b, for strings
Contains(sub, s) ==
    \E i \in 1..(Len(s) - Len(sub) + 1) : SubSeq(s, i, i + Len(sub) - 1) = sub

\* a > b, for strings: the first differing character decides, and a proper
\* prefix is the smaller one
RECURSIVE StrGT(_, _)
StrGT(a, b) ==
    IF a = <<>> THEN FALSE
    ELSE IF b = <<>> THEN TRUE
    ELSE IF Head(a) # Head(b) THEN Head(a) > Head(b)
    ELSE StrGT(Tail(a), Tail(b))

\* s.endswith(suffix); the source never calls it, the claims speak of it
EndsWith(s, suffix) ==
    /\ Len(s) >= Len(suffix)
    /\ SubSeq(s, Len(s) - Len(suffix) + 1, Len(s)) = suffix

(***************************************************************************)
(* String literals of the source                                           *)
(***************************************************************************)
Cylinder == <<67, 121, 108, 105, 110, 100, 101, 114>>     \* 'Cylinder'
Airfoil  == <<65, 105, 114, 102, 111, 105, 108>>          \* 'Airfoil'
DotTxt   == <<46, 116, 120, 116>>                         \* '.txt'
DotBak   == <<46, 98, 97, 107>>                           \* '.bak'
Dash     == <<45>>                                        \* '-'
Zero     == <<48>>                                        \* '0'

\* ['M1','M2']
motions == << <<77, 49>>, <<77, 50>> >>
\* ['h0',...,'h5']
hs == [i \in 1..6 |-> <<104, 47 + i>>]
\* ['p0',...,'p6']
ps == [i \in 1..7 |-> <<112, 47 + i>>]
\* ['t0',...,'t5']
ts == [i \in 1..6 |-> <<116, 47 + i>>]

Range(s) == {s[i] : i \in DOMAIN s}

(***************************************************************************)
(* get_max_h, get_max_p                                                    *)
(***************************************************************************)
\* the scan without reversed(): the first token of the list that is a key
ScanConfig_ascending(list, config, i) ==
    IF \A j \in 1..i : list[j] \notin DOMAIN config THEN NoToken
    ELSE list[CHOOSE j \in 1..i : /\ list[j] \in DOMAIN config
                                  /\ \A k \in 1..(j - 1) : list[k] \notin DOMAIN config]

\* for x in reversed(list): if x in config: max = x; break
RECURSIVE ScanConfig(_, _, _)
ScanConfig(list, config, i) ==
    IF i = 0 THEN NoToken
    ELSE IF list[i] \in DOMAIN config THEN list[i]
    ELSE ScanConfig(list, config, i - 1)

\* a selector that falls back to the lowest token instead of ending the run
get_max_h_default(config) ==
    LET m == ScanConfig(hs, config, Len(hs))
    IN  [exited |-> FALSE, value |-> IF m = NoToken THEN hs[1] ELSE m]

\* the run ends in the function when no token was found: sys.exit() is
\* called (and `sys` is not imported, so the call raises NameError; either
\* way nothing is returned and nothing after the call runs)
get_max_h(config) ==
    LET m == ScanConfig(hs, config, Len(hs))
    IN  [exited |-> m = NoToken, value |-> m]

get_max_p(config) ==
    LET m == ScanConfig(ps, config, Len(ps))
    IN  [exited |-> m = NoToken, value |-> m]

(***************************************************************************)
(* get_max_t                                                               *)
(***************************************************************************)
\* for t in reversed(ts): if (t in file) and (t > max_t): max_t = t; break
RECURSIVE ScanTs(_, _, _)
ScanTs(file, cur, i) ==
    IF i = 0 THEN cur
    ELSE IF Contains(ts[i], file) /\ StrGT(ts[i], cur) THEN ts[i]
    ELSE ScanTs(file, cur, i - 1)

\* (geometry in file) and (motion in file) and ('.txt' in file)
FileFilter(file, geometry, motion) ==
    /\ Contains(geometry, file)
    /\ Contains(motion, file)
    /\ Contains(DotTxt, file)

\* for file in files: ...
RECURSIVE ScanFiles(_, _, _, _, _)
ScanFiles(files, geometry, motion, cur, k) ==
    IF k > Len(files) THEN cur
    ELSE ScanFiles(files, geometry, motion,
                   IF FileFilter(files[k], geometry, motion)
                   THEN ScanTs(files[k], cur, Len(ts))
                   ELSE cur,
                   k + 1)

\* files is os.listdir(group), in the order the system lists it
get_max_t(files, geometry, motion) ==
    ScanFiles(files, geometry, motion, Zero, 1)

(***************************************************************************)
(* load_participant_data                                                   *)
(***************************************************************************)
\* f"{case}-{motion}-{h}-{p}-{t}.txt", inside the group's directory
FileName(case, motion, h, p, t) ==
    case \o Dash \o motion \o Dash \o h \o Dash \o p \o Dash \o t \o DotTxt

(***************************************************************************)
(* Numbers of a data table                                                 *)
(***************************************************************************)
\* A time sample: not-a-number, or the number base + off * 1e-8, where
\* base is an integer and |off| < 5 * 10^7 (so base is the nearest integer).
\* The other four columns hold integers.
NaN == [nan |-> TRUE, base |-> 0, off |-> 0]
Num(b, o) == [nan |-> FALSE, base |-> b, off |-> o]

Abs(x) == IF x < 0 THEN 0 - x ELSE x

\* np.isnan
isnan(x) == x.nan

\* numpy's defaults, in units of 1e-8: atol = 1e-8, and rtol = 1e-5 is
\* 1000 units for each unit of |b|
Atol == 1
Rtol == 1000

\* np.isclose(a, b) for an integer b: |a - b| <= atol + rtol * |b|; false
\* when a is not-a-number. With |off| < 5 * 10^7 a sample whose base is
\* not b is more than 0.5 away from b, above every tolerance used here.
isclose(a, b) ==
    /\ ~ a.nan
    /\ a.base = b
    /\ Abs(a.off) <= Atol + Rtol * Abs(b)

(***************************************************************************)
(* process_data                                                            *)
(***************************************************************************)
\* data[:,j]
Column(table, j) == [i \in 1..Len(table) |-> table[i][j]]

\* np.delete(data,0,0)
DeleteLast_first(table) == SubSeq(table, 2, Len(table))

\* np.delete(data,-1,0)
DeleteLast(table) == SubSeq(table, 1, Len(table) - 1)

\* the result of a call that raised IndexError instead of returning
Raised(integrals) ==
    [raised |-> TRUE, time |-> <<>>, y_force |-> <<>>, work_integrand |-> <<>>,
     mass |-> <<>>, mass_error |-> <<>>,
     participant_integrals |-> integrals, skip |-> FALSE, printed |-> <<>>]

\* line 130: the start time is not 0
BadStart(time) == ~ isclose(time[1], 0)

\* lines 135-142: the stop time is not the end time of the (global) motion;
\* no stop time is checked for another motion
BadStop(time, motion) ==
    IF motion = motions[1] THEN ~ isclose(time[Len(time)], 1)
    ELSE IF motion = motions[2] THEN ~ isclose(time[Len(time)], 40)
    ELSE FALSE

\* the diagnostics lines 131, 137 and 141 print
Diagnostics(time, motion) ==
    (IF BadStart(time)
     THEN <<"Start-time for data-set is not 0. Skipping...">> ELSE <<>>)
    \o (IF ~ BadStop(time, motion) THEN <<>>
        ELSE IF motion = motions[1]
        THEN <<"End-time for data-set is not 1. Skipping...">>
        ELSE <<"End-time for data-set is not 40. Skipping...">>)

\* the validation with skip=False reset before the stop-time check
Validate_stopOnly(time, motion) == BadStop(time, motion)

\* lines 128-142: start time, then stop time for the (global) motion
Validate(time, motion) == BadStart(time) \/ BadStop(time, motion)

\* table is the array of the data file's rows; motion is the module-level
\* loop variable the function reads. data[-1,0] on a table without rows and
\* time[0] on a table left without rows raise IndexError.
process_data(table, motion) ==
    IF Len(table) = 0 THEN Raised(None)
    ELSE
      LET last      == table[Len(table)]
          synthetic == isnan(last[1])
          participant_integrals ==
              IF synthetic
              THEN [YForce |-> last[2], Work |-> last[3],
                    Mass |-> last[4], MassError |-> last[5]]
              ELSE None
          rest == IF synthetic THEN DeleteLast(table) ELSE table
          time == Column(rest, 1)
      IN  IF Len(time) = 0 THEN Raised(participant_integrals)
          ELSE [raised |-> FALSE,
                time |-> time,
                y_force |-> Column(rest, 2),
                work_integrand |-> Column(rest, 3),
                mass |-> Column(rest, 4),
                mass_error |-> Column(rest, 5),
                participant_integrals |-> participant_integrals,
                skip |-> Validate(time, motion),
                printed |-> Diagnostics(time, motion)]

\* integrate.simps(y=y, x=x): the library's quadrature, kept as the term
\* "the integral of the series y over the samples x"
simps(y, x) == [integral_of |-> y, over |-> x]

(***************************************************************************)
(* Inputs of the functions, for the specification SpecFn that calls each   *)
(* function once on an input drawn from bounded sets                       *)
(***************************************************************************)
MaxKeys  == 2      \* keys of a configuration
MaxFiles == 2      \* entries of a directory listing
MaxRows  == 3      \* rows of a data table

Keys == Range(hs) \cup Range(ps)

\* a configuration: index tokens mapped to flags (json.load of Cylinder.json)
Configs(n) ==
    UNION {[K -> BOOLEAN] : K \in {S \in SUBSET Keys : Cardinality(S) <= n}}

DotJson == <<46, 106, 115, 111, 110>>                     \* '.json'
Notes   == <<110, 111, 116, 101, 115>>                    \* 'notes'

\* names a submission directory may hold
FilePool ==
    { FileName(Cylinder, motions[1], hs[4], ps[5], ts[1]),
      FileName(Cylinder, motions[1], hs[4], ps[5], ts[3]),
      FileName(Cylinder, motions[1], hs[4], ps[5], ts[6]),
      FileName(Cylinder, motions[1], hs[3], ps[2], ts[4]),
      FileName(Cylinder, motions[1], hs[4], ps[5], ts[6]) \o DotBak,
      FileName(Cylinder, motions[2], hs[4], ps[5], ts[5]),
      FileName(Airfoil,  motions[1], hs[4], ps[5], ts[4]),
      Cylinder \o Dash \o motions[1] \o Dash \o Notes \o DotTxt,
      Cylinder \o DotJson }

\* sequences without repetition, of at most n elements of S
Listings(S, n) ==
    {l \in UNION {[1..k -> S] : k \in 0..n} :
        \A i, j \in DOMAIN l : i # j => l[i] # l[j]}

\* time samples around the tolerances of the two validations: 0, 1e-8,
\* 2e-8, 1, 1 + 1000e-8, 1 + 1002e-8, 0.9, 40, 40 + 40000e-8, 40 + 40002e-8
Times ==
    { NaN, Num(0, 0), Num(0, 1), Num(0, 2),
      Num(1, 0), Num(1, 1000), Num(1, 1002), Num(1, -10000000),
      Num(40, 0), Num(40, 40000), Num(40, 40002) }

\* the other four columns of a row
Payloads == { <<1, 2, 3, 4>>, <<5, 6, 7, 8>> }

Rows == {<<t>> \o q : t \in Times, q \in Payloads}

Tables(n) == UNION {[1..k -> Rows] : k \in 0..n}

\* the calls on configurations of at most nk keys, listings of at most nf
\* names and tables of at most nr rows
Args(nk, nf, nr) ==
    {[fn |-> "get_max_h", config |-> c] : c \in Configs(nk)}
    \cup {[fn |-> "get_max_p", config |-> c] : c \in Configs(nk)}
    \cup {[fn |-> "get_max_t", files |-> l, geometry |-> Cylinder, motion |-> m] :
              l \in Listings(FilePool, nf), m \in Range(motions)}
    \cup {[fn |-> "process_data", data |-> d, motion |-> m] :
              d \in Tables(nr), m \in Range(motions)}

(***************************************************************************)
(* The file system the run reads                                           *)
(***************************************************************************)
\* the keys of `groups`, in the order the loop visits them
GroupNames == <<"UM", "AFRL">>

\* data tables of the submissions: a file with only the header line, a file
\* whose only row is the synthetic integrals row, M1 histories (0 to 1,
\* the same with the synthetic row, 0 to 0.9) and M2 histories (0 to 40,
\* 1 to 40)
HeaderOnly    == <<>>
SyntheticOnly == << <<NaN, 9, 8, 7, 6>> >>
ValidM1       == << <<Num(0, 0), 1, 2, 3, 4>>, <<Num(1, -10000000), 5, 6, 7, 8>>,
                    <<Num(1, 0), 1, 2, 3, 4>> >>
ValidM1Syn    == ValidM1 \o SyntheticOnly
ShortM1       == << <<Num(0, 0), 1, 2, 3, 4>>, <<Num(1, -10000000), 5, 6, 7, 8>> >>
ValidM2       == << <<Num(0, 0), 5, 6, 7, 8>>, <<Num(40, 0), 1, 2, 3, 4>> >>
LateM2        == << <<Num(1, 0), 5, 6, 7, 8>>, <<Num(40, 0), 1, 2, 3, 4>> >>

File(n, t) == [name |-> n, table |-> t]

\* the data files of a group's directory, in listing order
Dirs ==
    { <<>>,
      << File(FileName(Cylinder, motions[1], hs[4], ps[5], ts[3]), ValidM1),
         File(FileName(Cylinder, motions[2], hs[4], ps[5], ts[3]), ValidM2) >>,
      << File(FileName(Cylinder, motions[1], hs[4], ps[5], ts[3]), ValidM1Syn),
         File(FileName(Cylinder, motions[2], hs[4], ps[5], ts[3]), LateM2) >>,
      << File(FileName(Cylinder, motions[1], hs[4], ps[5], ts[3]), ShortM1),
         File(FileName(Cylinder, motions[2], hs[4], ps[5], ts[3]), ValidM2) >>,
      << File(FileName(Cylinder, motions[1], hs[4], ps[5], ts[3]), ValidM1),
         File(FileName(Cylinder, motions[1], hs[4], ps[5], ts[6]) \o DotBak, ValidM1) >>,
      << File(FileName(Cylinder, motions[1], hs[4], ps[5], ts[3]), HeaderOnly) >>,
      << File(FileName(Cylinder, motions[2], hs[4], ps[5], ts[1]), SyntheticOnly) >>,
      << File(FileName(Cylinder, motions[1], hs[3], ps[2], ts[4]), ValidM1) >> }

\* Cylinder.json: whether the file exists, and the mapping it holds
Json(c) == [exists |-> TRUE, content |-> c]
NoJson  == [exists |-> FALSE, content |-> EmptyDict]

JsonFiles ==
    { NoJson,
      Json(EmptyDict),
      Json((hs[4] :> TRUE)),
      Json((hs[4] :> TRUE) @@ (ps[5] :> TRUE)),
      Json((hs[3] :> TRUE) @@ (hs[4] :> TRUE) @@ (ps[2] :> TRUE) @@ (ps[5] :> TRUE)),
      Json((hs[4] :> TRUE) @@ (hs[6] :> FALSE) @@ (ps[5] :> TRUE)) }

FileSystems == [Range(GroupNames) -> [json : JsonFiles, dir : Dirs]]

\* os.listdir(group)
listdir(g) ==
    [i \in 1..Len(fs[g].dir) |-> fs[g].dir[i].name]
    \o (IF fs[g].json.exists THEN << Cylinder \o DotJson >> ELSE <<>>)

\* os.path.isfile(f"{group}/{name}")
isfile(g, name) == name \in Range(listdir(g))

\* np.loadtxt(file, skiprows=1, delimiter=',', ndmin=2)
loadtxt(g, name) ==
    LET i == CHOOSE j \in 1..Len(fs[g].dir) : fs[g].dir[j].name = name
    IN  fs[g].dir[i].table

(***************************************************************************)
(* The main loop: for group in groups: for motion in motions               *)
(***************************************************************************)
group  == GroupNames[gi]
motion == motions[mi]

Pairs == Range(GroupNames) \X Range(motions)

\* groups, as the module defines it (color left out: it is never written)
EmptyIntegrals ==
    [YForce |-> EmptyDict, Work |-> EmptyDict, Mass |-> EmptyDict, MassError |-> EmptyDict]
InitGroups ==
    [g \in Range(GroupNames) |-> [config |-> EmptyDict, integrals |-> EmptyIntegrals]]

\* the state before the first iteration, on the file system f
InitOn(f) ==
    /\ fs = f
    /\ gi = 1 /\ mi = 1
    /\ groups = InitGroups
    /\ max_h = None /\ max_p = None /\ max_t = None
    /\ data = None /\ pd = None
    /\ plots = {} /\ stdout = <<>>
    /\ phases = <<>> /\ wrote = {} /\ stale = {}
    /\ outcome = [q \in Pairs |-> "NONE"]

Init ==
    /\ \E f \in FileSystems : InitOn(f)
    /\ pc = "loop"
    /\ arg = None /\ ret = None

\* a read of the accumulator field fld of the current group: it is stale
\* when the field was not written in this iteration
ReadOf(flds) == {[group |-> group, motion |-> motion, field |-> x] : x \in flds \ wrote}

\* lines 209-210: open and json.load; open raises FileNotFoundError when
\* the file does not exist, and nothing catches it
ReadConfig ==
    /\ pc = "loop"
    /\ IF ~ fs[group].json.exists
       THEN /\ pc' = "fault"
            /\ UNCHANGED <<groups, phases, wrote>>
       ELSE /\ groups' = [groups EXCEPT ![group].config = fs[group].json.content]
            /\ phases' = <<"CONFIG_LOADED">>
            /\ wrote' = {"config"}
            /\ pc' = "config_loaded"
    /\ UNCHANGED <<fs, gi, mi, max_h, max_p, max_t, data, pd, plots, stdout,
                   stale, outcome, arg, ret>>

\* lines 213-215
GetMaxResolution ==
    /\ pc = "config_loaded"
    /\ LET h == get_max_h(groups[group].config)
           p == get_max_p(groups[group].config)
       IN  IF h.exited
           THEN /\ pc' = "exit"
                /\ stdout' = Append(stdout,
                       "No 'h'-index descriptors detected in data set json configuration.")
                /\ UNCHANGED <<max_h, max_p, max_t, phases>>
           ELSE IF p.exited
           THEN /\ pc' = "exit"
                /\ max_h' = h.value
                /\ stdout' = Append(stdout,
                       "No 'p'-index descriptors detected in data set json configuration.")
                /\ UNCHANGED <<max_p, max_t, phases>>
           ELSE /\ max_h' = h.value
                /\ max_p' = p.value
                /\ max_t' = get_max_t(listdir(group), Cylinder, motion)
                /\ phases' = Append(phases, "RESOLUTION_SELECTED")
                /\ pc' = "resolution_selected"
                /\ UNCHANGED stdout
    /\ stale' = stale \cup ReadOf({"config"})
    /\ UNCHANGED <<fs, gi, mi, groups, data, pd, plots, wrote, outcome, arg, ret>>

\* line 218, load_participant_data
LoadData ==
    /\ pc = "resolution_selected"
    /\ LET file == FileName(Cylinder, motion, max_h, max_p, max_t)
       IN  IF isfile(group, file)
           THEN /\ data' = loadtxt(group, file)
                /\ phases' = Append(phases, "DATA_LOADED")
                /\ pc' = "data_loaded"
                /\ UNCHANGED stdout
           ELSE /\ data' = False
                /\ stdout' = Append(stdout, [print |-> "Data not found: ",
                                             group |-> group, file |-> file])
                /\ phases' = Append(phases, "NOT_FOUND")
                /\ pc' = "end"
    /\ UNCHANGED <<fs, gi, mi, groups, max_h, max_p, max_t, pd, plots, wrote,
                   stale, outcome, arg, ret>>

\* lines 221-224: process_data, whose IndexError nothing catches
ProcessData ==
    /\ pc = "data_loaded"
    /\ LET r == process_data(data, motion)
       IN  /\ pd' = r
           /\ IF r.raised
              THEN /\ pc' = "fault"
                   /\ UNCHANGED <<phases, stdout>>
              ELSE IF r.skip
              THEN /\ pc' = "end"
                   /\ phases' = phases \o <<"PROCESSED", "SKIPPED">>
                   /\ stdout' = stdout \o r.printed
              ELSE /\ pc' = "processed"
                   /\ phases' = Append(phases, "PROCESSED")
                   /\ UNCHANGED stdout
    /\ UNCHANGED <<fs, gi, mi, groups, max_h, max_p, max_t, data, plots, wrote,
                   stale, outcome, arg, ret>>

\* the integrals that lines 226-228 store, and the series of each
IntegralsWritten_noMass == {"YForce", "Work"}
IntegralsWritten == {"YForce", "Work", "Mass"}

\* the integrals that lines 238-240 print
IntegralsPrinted == {"YForce", "Work", "Mass"}

SeriesOf(r, fld) ==
    IF fld = "YForce" THEN r.y_force
    ELSE IF fld = "Work" THEN r.work_integrand
    ELSE r.mass

\* lines 226-245: the three integrals are stored, the four series are
\* plotted on the motion's axes, and for M1 the integrals are printed
IntegrateAndPlot ==
    /\ pc = "processed"
    /\ LET integrals ==
               [fld \in DOMAIN groups[group].integrals |->
                   IF fld \in IntegralsWritten
                   THEN simps(SeriesOf(pd, fld), pd.time)
                   ELSE groups[group].integrals[fld]]
           written == wrote \cup IntegralsWritten
       IN  /\ groups' = [groups EXCEPT ![group].integrals = integrals]
           /\ wrote' = written
           /\ IF motion = motions[1]
              THEN /\ stdout' = stdout \o <<group, integrals.YForce,
                                            integrals.Work, integrals.Mass>>
                   /\ stale' = stale \cup
                         {[group |-> group, motion |-> motion, field |-> x] :
                              x \in IntegralsPrinted \ written}
              ELSE UNCHANGED <<stdout, stale>>
    /\ plots' = plots \cup {[axes |-> motion, group |-> group,
                             label |-> <<max_h, max_p, max_t>>, time |-> pd.time]}
    /\ phases' = Append(phases, "INTEGRATED_AND_PLOTTED")
    /\ pc' = "end"
    /\ UNCHANGED <<fs, gi, mi, max_h, max_p, max_t, data, pd, outcome, arg, ret>>

\* the end of the loop body: the next motion, the next group, or the code
\* after the loop (legends, labels, plt.show)
NextIteration ==
    /\ pc = "end"
    /\ outcome' = [outcome EXCEPT ![<<group, motion>>] = phases[Len(phases)]]
    /\ IF mi < Len(motions)
       THEN /\ mi' = mi + 1 /\ gi' = gi /\ pc' = "loop"
       ELSE IF gi < Len(GroupNames)
       THEN /\ mi' = 1 /\ gi' = gi + 1 /\ pc' = "loop"
       ELSE /\ pc' = "done" /\ UNCHANGED <<gi, mi>>
    /\ phases' = <<>>
    /\ wrote' = {}
    /\ UNCHANGED <<fs, groups, max_h, max_p, max_t, data, pd, plots, stdout,
                   stale, arg, ret>>

Next ==
    \/ ReadConfig
    \/ GetMaxResolution
    \/ LoadData
    \/ ProcessData
    \/ IntegrateAndPlot
    \/ NextIteration

Spec == Init /\ [][Next]_vars

(***************************************************************************)
(* SpecFn: one call of one function on an input of Args                    *)
(***************************************************************************)
InitFn ==
    /\ InitOn([g \in Range(GroupNames) |-> [json |-> NoJson, dir |-> <<>>]])
    /\ pc = "call"
    /\ arg \in Args(MaxKeys, MaxFiles, MaxRows)
    /\ ret = None

Return(value) ==
    /\ pc = "call"
    /\ pc' = "returned"
    /\ ret' = value
    /\ UNCHANGED <<fs, gi, mi, groups, max_h, max_p, max_t, data, pd, plots,
                   stdout, phases, wrote, stale, outcome, arg>>

Call_get_max_h ==
    /\ arg.fn = "get_max_h"
    /\ Return(get_max_h(arg.config))

Call_get_max_p ==
    /\ arg.fn = "get_max_p"
    /\ Return(get_max_p(arg.config))

Call_get_max_t ==
    /\ arg.fn = "get_max_t"
    /\ Return(get_max_t(arg.files, arg.geometry, arg.motion))

Call_process_data ==
    /\ arg.fn = "process_data"
    /\ Return(process_data(arg.data, arg.motion))

NextFn ==
    \/ Call_get_max_h
    \/ Call_get_max_p
    \/ Call_get_max_t
    \/ Call_process_data

SpecFn == InitFn /\ [][NextFn]_vars

(***************************************************************************)
(* Properties of the functions (checked under SpecFn)                      *)
(***************************************************************************)
Max(S) == CHOOSE x \in S : \A y \in S : y <= x

Returned(fn) == pc = "returned" /\ arg.fn = fn

\* the list a selector call scans
ListOf(fn) == IF fn = "get_max_h" THEN hs ELSE ps

KnownRows(table) ==
    IF Len(table) > 0 /\ table[Len(table)][1].nan
    THEN SubSeq(table, 1, Len(table) - 1)
    ELSE table

\* the canonical end time of a motion
EndTime(m) == IF m = motions[1] THEN 1 ELSE 40

SameLengths(r) ==
    /\ Len(r.y_force) = Len(r.time)
    /\ Len(r.work_integrand) = Len(r.time)
    /\ Len(r.mass) = Len(r.time)
    /\ Len(r.mass_error) = Len(r.time)

\* C2 as stated: process_data returns skip=false and five series of equal
\* length when the first time sample is 0 and the last one is the motion's
\* end time, and skip=true whenever the first is not 0 or the last is not
\* the end time.
C2_ExactBounds ==
    (Returned("process_data") /\ ~ ret.raised) =>
        LET rows  == KnownRows(arg.data)
            first == rows[1][1]
            last  == rows[Len(rows)][1]
        IN  /\ SameLengths(ret)
            /\ ret.skip <=> ~ (first = Num(0, 0) /\ last = Num(EndTime(arg.motion), 0))

\* C2 amended: skip=false exactly when the first time sample is within 1e-8
\* of 0 and the last one within 1e-8 + 1e-5 * end of the motion's end time
\* (1.001e-5 for M1, 4.0001e-4 for M2); the five series have equal length.
C2_BoundsWithinTolerance ==
    (Returned("process_data") /\ ~ ret.raised) =>
        LET rows    == KnownRows(arg.data)
            first   == rows[1][1]
            last    == rows[Len(rows)][1]
            startOK == ~ first.nan /\ first.base = 0 /\ first.off \in -1..1
            stopOK  == /\ ~ last.nan
                       /\ last.base = EndTime(arg.motion)
                       /\ IF arg.motion = motions[1]
                          THEN last.off \in -1001..1001
                          ELSE last.off \in -40001..40001
        IN  /\ SameLengths(ret)
            /\ ret.skip <=> ~ (startOK /\ stopOK)

\* a history accepted although its bounds are not exactly 0 and the end time
C2_Witness ==
    /\ Returned("process_data")
    /\ ~ ret.raised
    /\ ~ ret.skip
    /\ Len(ret.time) >= 2
    /\ ret.time[1] = Num(0, 1)
    /\ ret.time[Len(ret.time)].off # 0

DataFiles(files, geo, mot) ==
    {i \in DOMAIN files : /\ Contains(geo, files[i])
                          /\ Contains(mot, files[i])
                          /\ EndsWith(files[i], DotTxt)}

TokensIn(files, sel) ==
    {j \in DOMAIN ts : \E i \in sel : Contains(ts[j], files[i])}

\* C4 as stated: get_max_t returns the highest token of t0..t5 that occurs
\* in a name containing the geometry and the motion and ending with '.txt';
\* the other names do not influence the result.
C4_HighestTokenOfDataFiles ==
    Returned("get_max_t") =>
        LET sel  == DataFiles(arg.files, arg.geometry, arg.motion)
            toks == TokensIn(arg.files, sel)
        IN  toks # {} => ret = ts[Max(toks)]

\* C5 as stated: with no name containing the geometry and the motion and
\* ending with '.txt' (an empty directory included), get_max_t returns t0.
C5_DefaultIsT0 ==
    (Returned("get_max_t") /\ DataFiles(arg.files, arg.geometry, arg.motion) = {})
        => ret = ts[1]

(***************************************************************************)
(* Properties of the run (checked under Spec)                              *)
(***************************************************************************)
Last(q) == q[Len(q)]

Terminals == {"NOT_FOUND", "SKIPPED", "INTEGRATED_AND_PLOTTED"}

\* the pairs the loop visits after the current one
LaterPairs ==
    {<<GroupNames[i], motions[j]>> : i \in (gi + 1)..Len(GroupNames), j \in DOMAIN motions}
    \cup {<<group, motions[j]>> : j \in (mi + 1)..Len(motions)}

NoKeyOf(list, config) == Range(list) \cap DOMAIN config = {}

\* C6: when the configuration of the group has no key of h0..h5 (or none of
\* p0..p6), the selection step assigns no index for that list and ends the
\* run there: data, the processed series, the accumulator, the plots and
\* the outcomes are left as they were, and no step of the run follows.
C6_NoIndexEndsTheRun ==
    [][ /\ pc # "exit"
        /\ (pc = "config_loaded" /\ NoKeyOf(hs, groups[group].config)) =>
               (pc' = "exit" /\ max_h' = max_h /\ max_p' = max_p
                /\ UNCHANGED <<data, pd, groups, plots, outcome, phases>>)
        /\ (pc = "config_loaded" /\ NoKeyOf(ps, groups[group].config)) =>
               (pc' = "exit" /\ max_p' = max_p
                /\ UNCHANGED <<data, pd, groups, plots, outcome, phases>>)
      ]_vars

\* the run ended for a missing p index in the first iteration: nothing was
\* loaded or plotted, and the three later pairs were never visited
C6_Witness ==
    /\ pc = "exit"
    /\ gi = 1 /\ mi = 1
    /\ ~ NoKeyOf(hs, groups[group].config)
    /\ NoKeyOf(ps, groups[group].config)
    /\ data = None /\ plots = {}
    /\ \A q \in LaterPairs \cup {<<group, motion>>} : outcome[q] = "NONE"

IsPrefix(a, b) == Len(a) <= Len(b) /\ SubSeq(b, 1, Len(a)) = a

IterationPaths ==
    { <<"CONFIG_LOADED", "RESOLUTION_SELECTED", "NOT_FOUND">>,
      <<"CONFIG_LOADED", "RESOLUTION_SELECTED", "DATA_LOADED", "PROCESSED", "SKIPPED">>,
      <<"CONFIG_LOADED", "RESOLUTION_SELECTED", "DATA_LOADED", "PROCESSED",
        "INTEGRATED_AND_PLOTTED">> }

PlottedPairs == {<<l.group, l.axes>> : l \in plots}

\* C7 as stated: the phases of an iteration follow one of the three paths;
\* an iteration that has stopped, other than by the fatal configuration
\* exit, is in exactly one of NOT_FOUND, SKIPPED, INTEGRATED_AND_PLOTTED;
\* a pair is plotted only when its iteration is INTEGRATED_AND_PLOTTED.
C7_IterationStateMachine ==
    /\ \E path \in IterationPaths : IsPrefix(phases, path)
    /\ pc \in {"end", "fault"} =>
           (Len(phases) > 0 /\ Last(phases) \in Terminals)
    /\ \A q \in Pairs :
           /\ outcome[q] \in Terminals \cup {"NONE"}
           /\ q \in PlottedPairs =>
                 \/ outcome[q] = "INTEGRATED_AND_PLOTTED"
                 \/ (q = <<group, motion>> /\ pc = "end"
                     /\ Last(phases) = "INTEGRATED_AND_PLOTTED")

\* C8 as stated: no condition met in an iteration is raised as an uncaught
\* fault; the run stops only at its end or at the fatal configuration exit.
C8_NoUncaughtFault ==
    pc # "fault"

\* the directory of g holds a data file Cylinder-<m>-<h>-<p>-<t>.txt
HasSubmission(g, m) ==
    \E i \in DOMAIN fs[g].dir, h \in Range(hs), p \in Range(ps), t \in Range(ts) :
        fs[g].dir[i].name = FileName(Cylinder, m, h, p, t)

\* C9 as stated: when the directory of the group holds a data file for the
\* geometry and the motion, the file named by (max_h, max_p, max_t) exists
\* and the iteration is not NOT_FOUND.
C9_SubmissionIsFound ==
    (pc \in {"resolution_selected", "data_loaded", "end"} /\ HasSubmission(group, motion)) =>
        /\ isfile(group, FileName(Cylinder, motion, max_h, max_p, max_t))
        /\ (pc = "end" => Last(phases) # "NOT_FOUND")

\* C10 as stated: every iteration overwrites the config and the integrals
\* Y-Force, Work and Mass of the group, and no read of the accumulator gets
\* a value that was not written in the same iteration.
C10_FullyOverwritten ==
    /\ pc = "end" => ({"config"} \cup IntegralsPrinted) \subseteq wrote
    /\ stale = {}

\* C10 amended: every iteration overwrites the config; the integrals
\* Y-Force, Work and Mass are overwritten only by an iteration that ends
\* INTEGRATED_AND_PLOTTED and keep their earlier values after NOT_FOUND or
\* SKIPPED; no read of the accumulator gets a value that was not written in
\* the same iteration.
C10_NoStaleRead ==
    /\ pc = "end" =>
          /\ "config" \in wrote
          /\ groups[group].config = fs[group].json.content
          /\ IF Last(phases) = "INTEGRATED_AND_PLOTTED"
             THEN IntegralsPrinted \subseteq wrote
             ELSE wrote = {"config"}
    /\ stale = {}

\* M1 was integrated and printed, then M2 of the same group ended SKIPPED
\* or NOT_FOUND with the integrals of M1 still in the accumulator
C10_Witness ==
    /\ pc = "end"
    /\ mi = 2
    /\ Last(phases) \in {"NOT_FOUND", "SKIPPED"}
    /\ outcome[<<group, motions[1]>>] = "INTEGRATED_AND_PLOTTED"
    /\ groups[group].integrals.Mass = simps(Column(ValidM1, 4), Column(ValidM1, 1))
    /\ Len(stdout) >= 4

====
